---- MODULE Spec2Model ----
(***************************************************************************)
(* A model of harbor-cli: the configuration subsystem (config.py), the     *)
(* `self config` commands (commands/cli/self.py), the client factory       *)
(* (harbor/client.py) and the CVE allowlist commands                       *)
(* (commands/api/cve_allowlist.py).                                        *)
(*                                                                         *)
(* Encoding of Python values:                                              *)
(*   - a str is a TLA+ string; a SecretStr is the string it holds;         *)
(*   - None is the token NoneVal;                                          *)
(*   - a pathlib.Path is the string of the path;                           *)
(*   - a key that is missing from a TOML table is the token Absent;        *)
(*   - an Enum member (LogLevel.INFO, OutputFormat.TABLE) is its name.     *)
(***************************************************************************)
EXTENDS Integers, Sequences, FiniteSets, TLC

VARIABLES
    \* ---- configuration (config.py, state.config) ----
    config,         \* the HarborCLIConfig object held by the process
    loaded,         \* state.is_config_loaded
    disk,           \* the file system: path -> [exists, doc]
    environ,        \* os.environ: variable name -> value or Unset
    \* ---- results of the operations of the loader specification ----
    authResult,     \* outcome of HarborSettings.ensure_authable()
    printed,        \* what render_config printed for config and for a second config
    reloaded,       \* outcome of load_config() / HarborCLIConfig.from_file()
    fileop,         \* the last create_config or from_file call: arguments, disk before
    \* ---- `self config` commands (commands/cli/self.py) ----
    last,           \* the last command run and how it ended
    ncmds,          \* number of commands run in this session
    \* ---- client factory (harbor/client.py) ----
    CLIENTS,        \* _CLIENTS: url -> client id (0: no entry)
    clients,        \* every HarborAsyncClient constructed so far, in order
    state_client,   \* state.client (0: not assigned)
    calls,          \* every (url, returned client) of a finished get_client call
    pc,             \* position inside setup_client
    has_url,        \* local has_url of setup_client
    has_auth,       \* local has_auth of setup_client
    entry,          \* config.harbor as the running/last setup_client found it
    trace,          \* what the running/last setup_client did, in order
    nops,           \* number of operations run against the client factory
    \* ---- CVE allowlist (commands/api/cve_allowlist.py) ----
    server,         \* the allowlist stored by the Harbor server
    inv,            \* per CLI invocation: command, arguments, position, locals
    \* ---- user groups (commands/api/usergroup.py) ----
    usergroup,      \* the running/last `usergroup create`: arguments, position, calls
    groups          \* the user groups the Harbor server has created, in order

cfgVars == <<config, loaded, disk, environ>>
loaderVars == <<authResult, printed, reloaded, fileop>>
cmdVars == <<last, ncmds>>
clientVars ==
    <<CLIENTS, clients, state_client, calls, pc, has_url, has_auth, entry, trace, nops>>
allowVars == <<server, inv>>
groupVars == <<usergroup, groups>>
vars == <<cfgVars, loaderVars, cmdVars, clientVars, allowVars, groupVars>>

(***************************************************************************)
(* Python values                                                           *)
(***************************************************************************)
NoneVal == "<None>"
Absent == "<absent>"
Unset == "<unset>"
Redacted == "********"

\* bool(v) of a value that is a str, a Path or None
Truthy(v) == v # "" /\ v # NoneVal

\* Files that exist on disk besides the configuration files: credentials files.
ExistingFiles == {"cred1.json", "cred2.json"}

DEFAULT_CONFIG_FILE == "config.toml"
OtherConfigFile == "other.toml"
Paths == {DEFAULT_CONFIG_FILE, OtherConfigFile}

(***************************************************************************)
(* The settings models and their defaults                                  *)
(***************************************************************************)
\* A default is not validated: credentials_file starts as the str "", not None.
HarborSettings ==
    [url |-> "", username |-> "", secret |-> "", basicauth |-> "",
     credentials_file |-> ""]

LoggingSettings == [enabled |-> TRUE, structlog |-> FALSE, level |-> "INFO"]

TableSettings == [description |-> FALSE, max_depth |-> 0, compact |-> TRUE]

JSONSettings == [indent |-> 2, sort_keys |-> TRUE]

OutputSettings ==
    [format |-> "TABLE", paging |-> FALSE, pager |-> NoneVal,
     table |-> TableSettings, JSON |-> JSONSettings]

HarborCLIConfig ==
    [harbor |-> HarborSettings, logging |-> LoggingSettings,
     output |-> OutputSettings, config_file |-> NoneVal]

\* The three sections of settings (config_file is excluded from them).
Settings(c) == [harbor |-> c.harbor, logging |-> c.logging, output |-> c.output]

(***************************************************************************)
(* HarborSettings: validators, has_auth_method, ensure_authable            *)
(***************************************************************************)
\* @validator("credentials_file", pre=True)
empty_string_is_none(v) == IF v = "" THEN NoneVal ELSE v

\* @validator("credentials_file"): TRUE when the value passes
validate_credentials_file(v) == v = NoneVal \/ v \in ExistingFiles

has_auth_method(h) ==
    (h.username # "" /\ h.secret # "") \/ h.basicauth # "" \/ Truthy(h.credentials_file)

NotCalled == [called |-> FALSE, raised |-> "", msg |-> "", value |-> FALSE]

\* The mutant: the check of the auth methods is skipped.
ensure_authable_NoAuthCheck(h) ==
    IF h.url = ""
    THEN [called |-> TRUE, raised |-> "CredentialsError", msg |-> "url", value |-> FALSE]
    ELSE [called |-> TRUE, raised |-> "", msg |-> "", value |-> TRUE]

ensure_authable(h) ==
    IF h.url = ""
    THEN [called |-> TRUE, raised |-> "CredentialsError", msg |-> "url", value |-> FALSE]
    ELSE IF ~has_auth_method(h)
    THEN [called |-> TRUE, raised |-> "CredentialsError", msg |-> "auth", value |-> FALSE]
    ELSE [called |-> TRUE, raised |-> "", msg |-> "", value |-> TRUE]

(***************************************************************************)
(* TableSettings.check_max_depth on an int (a TOML integer)                *)
(***************************************************************************)
\* The mutant: a negative value is kept.
check_max_depth_KeepsNegative(v) == v

check_max_depth(v) == IF v < 0 THEN 0 ELSE v

(***************************************************************************)
(* HarborCLIConfig.toml: the object -> a TOML document                     *)
(***************************************************************************)
\* json_encoders: SecretStr -> v.get_secret_value() if v else None
SecretJson(s) == IF s # "" THEN s ELSE NoneVal

\* A None field under exclude_none is left out of the dict.
ExcludeNone(v, exclude_none) == IF v = NoneVal /\ exclude_none THEN Absent ELSE v

\* replace_none(...): None becomes "" (a key that is absent stays absent)
replace_none(v) == IF v = NoneVal THEN "" ELSE v

\* The mutant: credentials_file-like values (paths) are left readable.
RedactValue_PathsShown(v, expose_secrets) ==
    IF ~expose_secrets /\ v # Absent /\ v # "" /\ v \notin ExistingFiles
    THEN Redacted ELSE v

\* The loop over ["secret", "basicauth", "credentials_file"] when not expose_secrets
RedactValue(v, expose_secrets) ==
    IF ~expose_secrets /\ v # Absent /\ v # "" THEN Redacted ELSE v

toml(c, expose_secrets, exclude_none) ==
    LET \* self.json(**kwargs): exclude_none acts on the field values, then the encoders run
        secret == SecretJson(c.harbor.secret)
        basicauth == SecretJson(c.harbor.basicauth)
        credentials_file == ExcludeNone(c.harbor.credentials_file, exclude_none)
        pager == ExcludeNone(c.output.pager, exclude_none)
    IN  [harbor |->
            [url |-> c.harbor.url,
             username |-> c.harbor.username,
             secret |-> RedactValue(replace_none(secret), expose_secrets),
             basicauth |-> RedactValue(replace_none(basicauth), expose_secrets),
             credentials_file |-> RedactValue(replace_none(credentials_file), expose_secrets)],
         logging |-> c.logging,
         output |->
            [format |-> c.output.format,
             paging |-> c.output.paging,
             pager |-> replace_none(pager),
             table |-> c.output.table,
             JSON |-> c.output.JSON]]

\* sample_config(exclude_none=False)
sample_config == toml(HarborCLIConfig, TRUE, FALSE)

(***************************************************************************)
(* HarborCLIConfig built from a TOML document (cls(doc, config_file=path))  *)
(***************************************************************************)
\* TRUE when every validator accepts the document
DocValid(doc) ==
    doc.harbor.credentials_file = Absent
      \/ validate_credentials_file(empty_string_is_none(doc.harbor.credentials_file))

FromDoc(doc, path) ==
    [harbor |->
        [url |-> doc.harbor.url,
         username |-> doc.harbor.username,
         secret |-> doc.harbor.secret,
         basicauth |-> doc.harbor.basicauth,
         credentials_file |->
            IF doc.harbor.credentials_file = Absent
            THEN HarborSettings.credentials_file
            ELSE empty_string_is_none(doc.harbor.credentials_file)],
     logging |-> doc.logging,
     output |->
        [format |-> doc.output.format,
         paging |-> doc.output.paging,
         pager |-> IF doc.output.pager = Absent
                   THEN OutputSettings.pager ELSE doc.output.pager,
         table |-> [doc.output.table EXCEPT
                        !.max_depth = check_max_depth(doc.output.table.max_depth)],
         JSON |-> doc.output.JSON],
     config_file |-> path]

(***************************************************************************)
(* The file system                                                         *)
(***************************************************************************)
NoFile == [exists |-> FALSE, doc |-> sample_config]
File(doc) == [exists |-> TRUE, doc |-> doc]

\* save_config(config, config_path)
save_config(d, c, path) == [d EXCEPT ![path] = File(toml(c, TRUE, TRUE))]

\* The mutant: --path is ignored.
SaveTarget_IgnoresPath(c, path) == c.config_file

\* HarborCLIConfig.save(path): the file written, or NoneVal when it raises ValueError
SaveTarget(c, path) == IF path # NoneVal THEN path ELSE c.config_file

NotLoaded == [called |-> FALSE, ok |-> FALSE, error |-> "", cfg |-> HarborCLIConfig]

\* load_config(config_path) -> HarborCLIConfig.from_file(config_path), create=False.
\* The environment is an argument because the process holds it; the code does not read it.
load_config(d, env, config_path) ==
    LET config_file == IF config_path = NoneVal THEN DEFAULT_CONFIG_FILE ELSE config_path
    IN  IF ~d[config_file].exists
        THEN [called |-> TRUE, ok |-> FALSE, error |-> "ConfigError:FileNotFoundError",
              cfg |-> HarborCLIConfig]
        ELSE IF ~DocValid(d[config_file].doc)
        THEN [called |-> TRUE, ok |-> FALSE, error |-> "ConfigError:ValidationError",
              cfg |-> HarborCLIConfig]
        ELSE [called |-> TRUE, ok |-> TRUE, error |-> "",
              cfg |-> FromDoc(d[config_file].doc, config_file)]

(***************************************************************************)
(* Environment variable names                                              *)
(***************************************************************************)
ENV_VAR_PREFIX == "HARBOR_CLI_"

\* str.upper() of the segments of the keys of the model
Upper(seg) ==
    CASE seg = "harbor" -> "HARBOR"
      [] seg = "url" -> "URL"
      [] seg = "username" -> "USERNAME"
      [] seg = "output" -> "OUTPUT"
      [] seg = "table" -> "TABLE"
      [] seg = "max_depth" -> "MAX_DEPTH"
      [] OTHER -> seg

RECURSIVE JoinUpper(_)
\* key.upper().replace(".", "_") of a key given as key.split(".")
JoinUpper(key) ==
    IF Len(key) = 1 THEN Upper(key[1])
    ELSE Upper(key[1]) \o "_" \o JoinUpper(Tail(key))

config_env_var(key) == ENV_VAR_PREFIX \o JoinUpper(key)

EnvNames == {config_env_var(<<"harbor", "url">>)}

(***************************************************************************)
(* Initial values of the parts a specification leaves alone                *)
(***************************************************************************)
NotPrinted ==
    [done |-> FALSE, doc |-> sample_config, other |-> HarborCLIConfig,
     otherDoc |-> sample_config]

NoFileOp ==
    [op |-> "", path |-> DEFAULT_CONFIG_FILE, flag |-> FALSE, raised |-> "",
     before |-> [p \in Paths |-> NoFile]]

LoaderIdle ==
    /\ authResult = NotCalled /\ printed = NotPrinted /\ reloaded = NotLoaded
    /\ fileop = NoFileOp

NoCommand ==
    [cmd |-> "", key |-> <<>>, value |-> "", path |-> NoneVal, session |-> FALSE,
     outcome |-> "", target |-> NoneVal]

CmdIdle == last = NoCommand /\ ncmds = 0

URLs == {"", "https://h1", "https://h2"}

ClientIdle ==
    /\ CLIENTS = [u \in URLs |-> 0]
    /\ clients = <<>>
    /\ state_client = 0
    /\ calls = {}
    /\ pc = "idle"
    /\ has_url = FALSE
    /\ has_auth = FALSE
    /\ entry = HarborSettings
    /\ trace = <<>>
    /\ nops = 0

Procs == {1, 2}

\* A CVEAllowlist: items is None when hasItems is FALSE; meta stands for every
\* other field (project id, expiration, ...), "" when none is set.
EmptyAllowlist == [items |-> <<>>, hasItems |-> TRUE, meta |-> ""]

IdleInvocation ==
    [cmd |-> "", cves |-> <<>>, flag |-> FALSE, pc |-> "idle",
     response |-> EmptyAllowlist, current_list |-> EmptyAllowlist,
     sent |-> EmptyAllowlist, outstanding |-> {}, issued |-> <<>>]

AllowIdle == server = EmptyAllowlist /\ inv = [p \in Procs |-> IdleInvocation]

NoUsergroupCommand ==
    [pc |-> "idle", group_type |-> "", group_name |-> "", ldap_group_dn |-> NoneVal,
     issued |-> <<>>]

GroupIdle == usergroup = NoUsergroupCommand /\ groups = <<>>

(***************************************************************************)
(* The loader specification: the operations of config.py applied to the    *)
(* configurations the program can hold                                     *)
(***************************************************************************)
LoaderUrls == {"", "https://h1"}
LoaderUsernames == {"", "admin"}
LoaderSecrets == {"", "pw1"}
LoaderBasicauths == {"", "tok1"}
LoaderCredentialsFiles == {"", NoneVal, "cred1.json"}
LoaderPagers == {NoneVal, "", "less"}
LoaderMaxDepths == {0, 2}

\* Configurations as construction and validation leave them.
LoaderConfigs ==
    { [HarborCLIConfig EXCEPT
          !.harbor = [url |-> u, username |-> n, secret |-> s, basicauth |-> b,
                      credentials_file |-> f],
          !.output.pager = pg,
          !.output.table.max_depth = md,
          !.config_file = DEFAULT_CONFIG_FILE] :
        u \in LoaderUrls, n \in LoaderUsernames, s \in LoaderSecrets,
        b \in LoaderBasicauths, f \in LoaderCredentialsFiles,
        pg \in LoaderPagers, md \in LoaderMaxDepths }

\* A second configuration: the same but for the three fields toml() redacts.
OthersOf(c) ==
    { [c EXCEPT !.harbor.secret = s, !.harbor.basicauth = b,
                !.harbor.credentials_file = f] :
        s \in {"", "pw2"}, b \in {"", "tok2"}, f \in {NoneVal, "cred2.json"} }

LoaderInit ==
    /\ config \in LoaderConfigs
    /\ loaded = TRUE
    /\ disk = [p \in Paths |-> NoFile]
    /\ environ \in { [n \in EnvNames |-> v] : v \in {Unset, "https://env"} }
    /\ LoaderIdle /\ CmdIdle /\ ClientIdle /\ AllowIdle /\ GroupIdle

\* config.harbor.ensure_authable()
EnsureAuthable ==
    /\ authResult' = ensure_authable(config.harbor)
    /\ UNCHANGED <<cfgVars, printed, reloaded, fileop, cmdVars, clientVars, allowVars, groupVars>>

\* render_config(config, as_toml=True), for config and for a second configuration
RenderConfig ==
    /\ \E other \in OthersOf(config) :
          printed' = [done |-> TRUE, doc |-> toml(config, FALSE, FALSE),
                      other |-> other, otherDoc |-> toml(other, FALSE, FALSE)]
    /\ UNCHANGED <<cfgVars, authResult, reloaded, fileop, cmdVars, clientVars, allowVars, groupVars>>

\* config.save(path)
SaveConfig ==
    /\ \E path \in {NoneVal, OtherConfigFile} :
          /\ SaveTarget(config, path) # NoneVal
          /\ disk' = save_config(disk, config, SaveTarget(config, path))
    /\ UNCHANGED <<config, loaded, environ, loaderVars, cmdVars, clientVars, allowVars, groupVars>>

\* load_config(path) in a process with the same environment
LoadConfig ==
    /\ \E path \in {NoneVal} \cup Paths :
          reloaded' = load_config(disk, environ, path)
    /\ UNCHANGED <<cfgVars, authResult, printed, fileop, cmdVars, clientVars, allowVars, groupVars>>

LoaderNext == EnsureAuthable \/ RenderConfig \/ SaveConfig \/ LoadConfig

SpecLoader == LoaderInit /\ [][LoaderNext]_vars

(***************************************************************************)
(* The three auth methods, as the claims name them                         *)
(***************************************************************************)
MethodsSet(h) ==
    {m \in {"username+secret", "basicauth", "credentials_file"} :
        \/ m = "username+secret" /\ h.username # "" /\ h.secret # ""
        \/ m = "basicauth" /\ h.basicauth # ""
        \/ m = "credentials_file" /\ h.credentials_file \in ExistingFiles}

\* C1 (as claimed): ensure_authable raises CredentialsError for every
\* configuration with none of the three auth methods set, and returns True for
\* every configuration with any one of them set.
C1_AcceptsAnyMethod ==
    authResult.called =>
        /\ (MethodsSet(config.harbor) = {} => authResult.raised = "CredentialsError")
        /\ (MethodsSet(config.harbor) # {} =>
                authResult.raised = "" /\ authResult.value = TRUE)

\* C1 (amended): ensure_authable raises CredentialsError for every configuration
\* with none of the three auth methods set and for every configuration whose url
\* is empty; it returns True for every configuration with a non-empty url and
\* any one of the three methods set.
C1_EnsureAuthable ==
    authResult.called =>
        /\ (MethodsSet(config.harbor) = {} \/ config.harbor.url = ""
                => authResult.raised = "CredentialsError" /\ authResult.value = FALSE)
        /\ (MethodsSet(config.harbor) # {} /\ config.harbor.url # ""
                => authResult.raised = "" /\ authResult.value = TRUE)

C1_Witness ==
    /\ authResult.called
    /\ Cardinality(MethodsSet(config.harbor)) = 1
    /\ config.harbor.url # ""
    /\ authResult.value = TRUE

\* C3 (as claimed): saving a configuration and loading the saved file gives a
\* configuration with the same settings in the sections harbor, logging and
\* output, unset optional values included.
C3_RoundTrip ==
    reloaded.ok => Settings(reloaded.cfg) = Settings(config)

\* C7: toml(expose_secrets=False) shows ******** for each of harbor.secret,
\* harbor.basicauth and harbor.credentials_file that is non-empty and "" for each
\* that is empty; two configurations that differ only in the values of non-empty
\* secret fields are printed identically.
IsEmptyValue(v) == v \in {"", NoneVal}

SameEmptiness(c, d) ==
    \A k \in {"secret", "basicauth", "credentials_file"} :
        IsEmptyValue(c.harbor[k]) <=> IsEmptyValue(d.harbor[k])

C7_Redaction ==
    printed.done =>
        /\ \A k \in {"secret", "basicauth", "credentials_file"} :
              printed.doc.harbor[k] =
                  IF IsEmptyValue(config.harbor[k]) THEN "" ELSE Redacted
        /\ (SameEmptiness(config, printed.other) => printed.doc = printed.otherDoc)

C7_Witness ==
    /\ printed.done
    /\ SameEmptiness(config, printed.other)
    /\ config.harbor.secret # "" /\ config.harbor.secret # printed.other.harbor.secret
    /\ config.harbor.credentials_file \in ExistingFiles
    /\ config.harbor.credentials_file # printed.other.harbor.credentials_file
    /\ printed.doc = printed.otherDoc

\* C8 (as claimed): when the configuration is loaded, the environment variable
\* HARBOR_CLI_ + the upper-cased key with dots replaced by underscores overrides
\* the file's value: the loaded configuration holds the environment's value.
C8_EnvOverridesFile ==
    (reloaded.ok /\ environ[config_env_var(<<"harbor", "url">>)] # Unset) =>
        reloaded.cfg.harbor.url = environ[config_env_var(<<"harbor", "url">>)]

(***************************************************************************)
(* `self config get|set|write` (commands/cli/self.py). A key is the list   *)
(* key.split(".") of its segments.                                         *)
(***************************************************************************)
MaxCmds == 3

\* The pydantic models of the configuration tree
ModelKinds == {"config", "harbor", "logging", "output", "table", "JSON"}

\* obj.model_fields
model_fields(kind) ==
    CASE kind = "config" -> {"harbor", "logging", "output", "config_file"}
      [] kind = "harbor" -> DOMAIN HarborSettings
      [] kind = "logging" -> DOMAIN LoggingSettings
      [] kind = "output" -> DOMAIN OutputSettings
      [] kind = "table" -> DOMAIN TableSettings
      [] kind = "JSON" -> DOMAIN JSONSettings

\* The properties a model defines besides its fields
Properties(kind) == IF kind = "harbor" THEN {"has_auth_method", "credentials"} ELSE {}

\* What kind of object a field holds: a model, or a plain value
FieldKind(kind, name) ==
    IF kind = "config" /\ name \in {"harbor", "logging", "output"} THEN name
    ELSE IF kind = "output" /\ name \in {"table", "JSON"} THEN name
    ELSE "value"

\* getattr(obj, name): the kind of the attribute, or AttributeError. A plain
\* value (str, int, bool, Path, None) has no attribute named by a key segment.
getattr(kind, name) ==
    IF kind \in ModelKinds /\ name \in model_fields(kind) THEN FieldKind(kind, name)
    ELSE IF kind \in ModelKinds /\ name \in Properties(kind) THEN "value"
    ELSE "AttributeError"

RECURSIVE Resolve(_, _)
\* obj = getattr(obj, attr) for attr in attrs, from an object of the given kind
Resolve(kind, attrs) ==
    IF attrs = <<>> THEN kind
    ELSE IF getattr(kind, Head(attrs)) = "AttributeError" THEN "AttributeError"
    ELSE Resolve(getattr(kind, Head(attrs)), Tail(attrs))

\* get_cli_config with a key: how the command ends
get_cli_config(key) ==
    IF Resolve("config", key) = "AttributeError" THEN "invalid_key" ELSE "ok"

\* int(v) of the strings the commands are given: the strings that are integers
IntLiterals == {"2", "-1"}

IntOf(v) == CASE v = "2" -> 2 [] v = "-1" -> -1

\* Validation of an assignment (validate_assignment = True) of the str value to
\* a field: [ok, v], v the value stored
Validate(kind, field, value) ==
    CASE kind = "harbor" /\ field \in {"url", "username", "secret", "basicauth"} ->
            [ok |-> TRUE, v |-> value]
      [] kind = "harbor" /\ field = "credentials_file" ->
            [ok |-> validate_credentials_file(empty_string_is_none(value)),
             v |-> empty_string_is_none(value)]
      [] kind = "output" /\ field = "pager" -> [ok |-> TRUE, v |-> value]
      [] kind = "output" /\ field \in {"table", "JSON"} -> [ok |-> FALSE, v |-> value]
      [] kind = "table" /\ field = "max_depth" ->
            IF value \in IntLiterals
            THEN [ok |-> TRUE, v |-> check_max_depth(IntOf(value))]
            ELSE [ok |-> FALSE, v |-> 0]
      [] kind = "config" /\ field = "config_file" -> [ok |-> TRUE, v |-> value]

\* The configuration after setattr(obj, field, v)
Assigned(c, kind, field, v) ==
    CASE kind = "harbor" -> [c EXCEPT !.harbor[field] = v]
      [] kind = "output" -> [c EXCEPT !.output[field] = v]
      [] kind = "table" -> [c EXCEPT !.output.table[field] = v]
      [] kind = "config" -> [c EXCEPT !.config_file = v]

SetEnds(outcome, c) == [outcome |-> outcome, config |-> c]

\* The mutant: a value that does not validate is assigned before the error.
set_cli_config_AssignsInvalid(c, key, value) ==
    LET obj == Resolve("config", SubSeq(key, 1, Len(key) - 1))
        to_set == key[Len(key)]
    IN  IF Len(key) > 1
        THEN IF obj = "AttributeError" THEN SetEnds("invalid_key", c)
             ELSE IF obj \notin ModelKinds THEN SetEnds("AssertionError", c)
             ELSE IF to_set \notin model_fields(obj) THEN SetEnds("invalid_key", c)
             ELSE IF ~Validate(obj, to_set, value).ok
             THEN SetEnds("invalid_value",
                          IF obj = "harbor" THEN Assigned(c, obj, to_set, value) ELSE c)
             ELSE SetEnds("ok", Assigned(c, obj, to_set, Validate(obj, to_set, value).v))
        ELSE IF getattr("config", key[1]) = "AttributeError" THEN SetEnds("invalid_key", c)
             ELSE IF getattr("config", key[1]) \in ModelKinds THEN SetEnds("invalid_key", c)
             ELSE IF ~Validate("config", key[1], value).ok THEN SetEnds("invalid_value", c)
             ELSE SetEnds("ok", Assigned(c, "config", key[1],
                                         Validate("config", key[1], value).v))

\* set_cli_config, the try block: how it ends and the configuration it leaves
set_cli_config(c, key, value) ==
    LET obj == Resolve("config", SubSeq(key, 1, Len(key) - 1))
        to_set == key[Len(key)]
    IN  IF Len(key) > 1
        THEN \* getattr failed: AttributeError
             IF obj = "AttributeError" THEN SetEnds("invalid_key", c)
             \* assert isinstance(obj, PydanticBaseModel): not caught
             ELSE IF obj \notin ModelKinds THEN SetEnds("AssertionError", c)
             ELSE IF to_set \notin model_fields(obj) THEN SetEnds("invalid_key", c)
             ELSE IF ~Validate(obj, to_set, value).ok THEN SetEnds("invalid_value", c)
             ELSE SetEnds("ok", Assigned(c, obj, to_set, Validate(obj, to_set, value).v))
        ELSE IF getattr("config", key[1]) = "AttributeError" THEN SetEnds("invalid_key", c)
             \* Overwriting config tables is not allowed.
             ELSE IF getattr("config", key[1]) \in ModelKinds THEN SetEnds("invalid_key", c)
             ELSE IF ~Validate("config", key[1], value).ok THEN SetEnds("invalid_value", c)
             ELSE SetEnds("ok", Assigned(c, "config", key[1],
                                         Validate("config", key[1], value).v))

\* The mutant: every subcommand runs without a loaded configuration file.
callback_NoGate(subcommand) == TRUE

\* The callback of `self config`: TRUE when the subcommand may run
callback(subcommand) ==
    subcommand \in {"path", "write", "env"}
        \/ ~(config.config_file = NoneVal \/ ~loaded)

\* The keys and values the commands are given.
GetKeys ==
    { <<"harbor", "url">>, <<"output", "table", "max_depth">>, <<"harbor">>,
      <<"nope">>, <<"harbor", "nope">>, <<"harbor", "url", "x">>,
      <<"harbor", "has_auth_method">> }

SetInputs ==
    { <<<<"harbor", "url">>, "https://h2">>,
      <<<<"harbor", "credentials_file">>, "cred1.json">>,
      <<<<"harbor", "credentials_file">>, "missing.json">>,
      <<<<"output", "table", "max_depth">>, "2">>,
      <<<<"output", "table", "max_depth">>, "-1">>,
      <<<<"output", "table", "max_depth">>, "deep">>,
      <<<<"nope">>, "v">>,
      <<<<"harbor", "nope">>, "v">>,
      <<<<"harbor", "url", "x">>, "v">>,
      <<<<"harbor">>, "v">>,
      <<<<"config_file">>, OtherConfigFile>> }

\* The --path and --session options of `set`
SetOptions ==
    { [path |-> NoneVal, session |-> FALSE], [path |-> NoneVal, session |-> TRUE],
      [path |-> OtherConfigFile, session |-> FALSE] }

\* A configuration file written by an earlier version or by hand
ConfiguredDoc ==
    [sample_config EXCEPT
        !.harbor.url = "https://h1", !.harbor.username = "admin",
        !.harbor.secret = "pw1", !.harbor.credentials_file = Absent,
        !.output.pager = "less", !.output.table.max_depth = -1]

\* The process has started: the configuration file was loaded, or there is none
\* and state.config is the default configuration.
Init ==
    /\ \/ /\ \E doc \in {sample_config, ConfiguredDoc} :
               /\ disk = [p \in Paths |->
                            IF p = DEFAULT_CONFIG_FILE THEN File(doc) ELSE NoFile]
               /\ config = FromDoc(doc, DEFAULT_CONFIG_FILE)
          /\ loaded = TRUE
       \/ /\ disk = [p \in Paths |-> NoFile]
          /\ config = HarborCLIConfig
          /\ loaded = FALSE
    /\ environ = [n \in EnvNames |-> Unset]
    /\ CmdIdle /\ LoaderIdle /\ ClientIdle /\ AllowIdle /\ GroupIdle

Ended(cmd, key, value, path, session, outcome, target) ==
    [cmd |-> cmd, key |-> key, value |-> value, path |-> path, session |-> session,
     outcome |-> outcome, target |-> target]

\* `self config get [KEY]`
GetCmd ==
    /\ ncmds < MaxCmds
    /\ \E key \in GetKeys \cup {<<>>} :
          last' = Ended("get", key, "", NoneVal, FALSE,
                        IF ~callback("get") THEN "no_config"
                        ELSE IF key = <<>> THEN "ok"
                        ELSE get_cli_config(key),
                        NoneVal)
    /\ ncmds' = ncmds + 1
    /\ UNCHANGED <<cfgVars, loaderVars, clientVars, allowVars, groupVars>>

\* `self config set KEY VALUE [--path PATH] [--session]`
SetCmd ==
    /\ ncmds < MaxCmds
    /\ \E in \in SetInputs, opt \in SetOptions :
          LET r == set_cli_config(config, in[1], in[2])
              target == SaveTarget(r.config, opt.path)
          IN  IF ~callback("set")
              THEN /\ last' = Ended("set", in[1], in[2], opt.path, opt.session,
                                    "no_config", NoneVal)
                   /\ UNCHANGED <<config, disk>>
              ELSE IF r.outcome # "ok"
              THEN \* the command exits in the try block, before the save
                   /\ config' = r.config
                   /\ last' = Ended("set", in[1], in[2], opt.path, opt.session,
                                    r.outcome, NoneVal)
                   /\ UNCHANGED disk
              ELSE /\ config' = r.config
                   \* if not session: state.config.save(path=path)
                   /\ disk' = IF opt.session THEN disk
                              ELSE save_config(disk, r.config, target)
                   /\ last' = Ended("set", in[1], in[2], opt.path, opt.session, "ok",
                                    IF opt.session THEN NoneVal ELSE target)
    /\ ncmds' = ncmds + 1
    /\ UNCHANGED <<loaded, environ, loaderVars, clientVars, allowVars, groupVars>>

\* The mutant: the --path written to becomes the configuration's config_file.
WriteCmd_AdoptsPath ==
    /\ ncmds < MaxCmds
    /\ \E path \in {NoneVal, OtherConfigFile} :
          LET save_path == IF path # NoneVal THEN path ELSE config.config_file
          IN  IF save_path = NoneVal
              THEN /\ last' = Ended("write", <<>>, "", path, FALSE, "no_path", NoneVal)
                   /\ UNCHANGED <<config, disk>>
              ELSE /\ config' = [config EXCEPT !.config_file = save_path]
                   /\ disk' = save_config(disk, config', SaveTarget(config', save_path))
                   /\ last' = Ended("write", <<>>, "", path, FALSE, "ok", save_path)
    /\ ncmds' = ncmds + 1
    /\ UNCHANGED <<loaded, environ, loaderVars, clientVars, allowVars, groupVars>>

\* `self config write [--path PATH]`
WriteCmd ==
    /\ ncmds < MaxCmds
    /\ \E path \in {NoneVal, OtherConfigFile} :
          LET save_path == IF path # NoneVal THEN path ELSE config.config_file
          IN  IF save_path = NoneVal
              THEN /\ last' = Ended("write", <<>>, "", path, FALSE, "no_path", NoneVal)
                   /\ UNCHANGED disk
              ELSE /\ disk' = save_config(disk, config, SaveTarget(config, save_path))
                   /\ last' = Ended("write", <<>>, "", path, FALSE, "ok", save_path)
    /\ ncmds' = ncmds + 1
    /\ UNCHANGED <<config, loaded, environ, loaderVars, clientVars, allowVars, groupVars>>

\* A subcommand that changes nothing: it ends with "ok" when its body runs
ReadOnlyCmd(subcommand) ==
    /\ ncmds < MaxCmds
    /\ last' = Ended(subcommand, <<>>, "", NoneVal, FALSE,
                     IF ~callback(subcommand) THEN "no_config" ELSE "ok", NoneVal)
    /\ ncmds' = ncmds + 1
    /\ UNCHANGED <<cfgVars, loaderVars, clientVars, allowVars, groupVars>>

\* `self config keys`
KeysCmd == ReadOnlyCmd("keys")

\* `self config path`
PathCmd == ReadOnlyCmd("path")

\* `self config env`
EnvCmd == ReadOnlyCmd("env")

Next == GetCmd \/ SetCmd \/ WriteCmd \/ KeysCmd \/ PathCmd \/ EnvCmd

Spec == Init /\ [][Next]_vars

(***************************************************************************)
(* Claims about `self config get|set`                                      *)
(***************************************************************************)
\* The keys that name a field of the configuration: sections and settings
ConfigFieldKeys ==
    {<<"harbor">>, <<"logging">>, <<"output">>, <<"config_file">>,
     <<"output", "table">>, <<"output", "JSON">>}
    \cup {<<"harbor", f>> : f \in DOMAIN HarborSettings}
    \cup {<<"logging", f>> : f \in DOMAIN LoggingSettings}
    \cup {<<"output", f>> : f \in {"format", "paging", "pager"}}
    \cup {<<"output", "table", f>> : f \in DOMAIN TableSettings}
    \cup {<<"output", "JSON", f>> : f \in DOMAIN JSONSettings}

\* The nested keys that name a setting (not a section)
NestedSettingKeys ==
    {k \in ConfigFieldKeys : Len(k) > 1} \ {<<"output", "table">>, <<"output", "JSON">>}

\* C4 (as claimed): `self config get KEY` and `self config set KEY VALUE` end
\* with the 'Invalid config key' error for every key that names no field of the
\* configuration (unknown section, unknown leaf, a path below a leaf) and
\* succeed for every valid nested key.
C4_InvalidKeysRejected ==
    (last.cmd \in {"get", "set"} /\ last.key # <<>> /\ last.outcome # "no_config") =>
        /\ last.key \notin ConfigFieldKeys => last.outcome = "invalid_key"
        /\ (last.key \in NestedSettingKeys /\ last.cmd = "get") => last.outcome = "ok"
        /\ (last.key \in NestedSettingKeys /\ last.cmd = "set") =>
              last.outcome \in {"ok", "invalid_value"}

\* The step is a `set` that succeeded.
SetSucceeds == ncmds' = ncmds + 1 /\ last'.cmd = "set" /\ last'.outcome = "ok"

\* C6: a successful `self config set` changes the configuration in memory and,
\* unless --session is given, writes it at once to --path or else to the
\* configuration's config_file, and to no other file; with --session nothing is
\* written; the disk changes only by a `set` without --session or by a `write`.
C6_SetPersistsUnlessSession ==
    /\ [][SetSucceeds =>
            /\ last'.key = <<"harbor", "url">> => config'.harbor.url = last'.value
            /\ last'.key = <<"harbor", "credentials_file">> =>
                  config'.harbor.credentials_file = last'.value
            /\ last'.key = <<"output", "table", "max_depth">> =>
                  config'.output.table.max_depth =
                      IF IntOf(last'.value) < 0 THEN 0 ELSE IntOf(last'.value)
            /\ last'.key = <<"config_file">> => config'.config_file = last'.value
            /\ last'.session => disk' = disk
            /\ ~last'.session =>
                  LET written == IF last'.path # NoneVal THEN last'.path
                                 ELSE config'.config_file
                  IN  /\ disk'[written] = File(toml(config', TRUE, TRUE))
                      /\ \A p \in Paths \ {written} : disk'[p] = disk[p]]_vars
    /\ [][disk' # disk =>
            /\ last'.outcome = "ok"
            /\ last'.cmd = "write" \/ (last'.cmd = "set" /\ ~last'.session)]_vars

C6_Witness ==
    /\ last.cmd = "set" /\ last.outcome = "ok" /\ last.session
    /\ config.harbor.url = "https://h2"
    /\ disk[config.config_file].exists
    /\ disk[config.config_file].doc.harbor.url # "https://h2"

\* A command of `self config` has just been run.
CommandRuns == ncmds' = ncmds + 1

C14_FailedSetChangesNothing ==
    [][(/\ CommandRuns
        /\ last'.cmd = "set"
        /\ last'.outcome \in {"invalid_key", "invalid_value", "AssertionError"})
          => config' = config /\ disk' = disk]_vars

C14_Witness ==
    /\ last.cmd = "set" /\ last.outcome = "invalid_value"
    /\ last.key = <<"harbor", "credentials_file">>
    /\ config.harbor.url = "https://h2"
    /\ ~last.session

C20_WriteSavesSession ==
    /\ [][(CommandRuns /\ last'.cmd = "write") =>
            /\ config' = config
            /\ IF last'.path # NoneVal \/ config.config_file # NoneVal
               THEN LET written == IF last'.path # NoneVal THEN last'.path
                                   ELSE config.config_file
                    IN  /\ last'.outcome = "ok"
                        /\ disk'[written] = File(toml(config, TRUE, TRUE))
                        /\ \A p \in Paths \ {written} : disk'[p] = disk[p]
               ELSE last'.outcome = "no_path" /\ disk' = disk]_vars
    /\ [][(SetSucceeds /\ last'.path # NoneVal) =>
            /\ last'.key # <<"config_file">> => config'.config_file = config.config_file
            /\ last'.key[1] # "harbor" => config'.harbor = config.harbor
            /\ last'.key[1] # "output" => config'.output = config.output
            /\ config'.logging = config.logging
            /\ last'.key = <<"harbor", "url">> =>
                  config' = [config EXCEPT !.harbor.url = last'.value]]_vars

C20_Witness ==
    /\ last.cmd = "write" /\ last.outcome = "ok" /\ last.path = OtherConfigFile
    /\ config.config_file = DEFAULT_CONFIG_FILE
    /\ disk[DEFAULT_CONFIG_FILE].exists /\ disk[OtherConfigFile].exists
    /\ disk[OtherConfigFile].doc # disk[DEFAULT_CONFIG_FILE].doc
    /\ disk[OtherConfigFile].doc.harbor.url = config.harbor.url

(***************************************************************************)
(* The allowlist specification: `cve-allowlist update` and `clear`, run by *)
(* CLI invocations against one Harbor server                               *)
(***************************************************************************)
MaxCves == 2

CveIds == {"CVE-1", "CVE-2"}

RECURSIVE SeqsUpTo(_, _)
\* The sequences over S of length at most n
SeqsUpTo(S, n) ==
    IF n = 0 THEN {<<>>}
    ELSE LET shorter == SeqsUpTo(S, n - 1)
         IN  shorter \cup {Append(q, x) : q \in {r \in shorter : Len(r) = n - 1}, x \in S}

\* CVEAllowlistItem(cve_id=cve_id)
CVEAllowlistItem(cve_id) == [cve_id |-> cve_id]

\* [CVEAllowlistItem(cve_id=cve_id) for cve_id in cves]
CveItems(cves) == [i \in 1..Len(cves) |-> CVEAllowlistItem(cves[i])]

\* What the server may hold when the invocations start.
InitialAllowlists ==
    { [items |-> <<>>, hasItems |-> FALSE, meta |-> "project-1"],
      [items |-> <<>>, hasItems |-> TRUE, meta |-> ""],
      [items |-> CveItems(<<"CVE-1">>), hasItems |-> TRUE, meta |-> "project-1"],
      [items |-> CveItems(<<"CVE-2", "CVE-1">>), hasItems |-> TRUE, meta |-> "project-1"] }

AllowInit ==
    /\ server \in InitialAllowlists
    /\ inv = [p \in Procs |-> IdleInvocation]
    /\ config = HarborCLIConfig /\ loaded = FALSE
    /\ disk = [p \in Paths |-> NoFile]
    /\ environ = [n \in EnvNames |-> Unset]
    /\ LoaderIdle /\ CmdIdle /\ ClientIdle /\ GroupIdle

\* state.run(state.client.<request>): the request is sent and the command waits
Issue(i, request, pcNext) ==
    [i EXCEPT !.outstanding = @ \cup {request}, !.issued = Append(@, request),
              !.pc = pcNext]

\* The mutant: the new CVEs are put in front of the existing entries.
UpdatedList_Prepend(current_list, cve_items, replace) ==
    IF replace
    THEN [current_list EXCEPT !.items = cve_items, !.hasItems = TRUE]
    ELSE [current_list EXCEPT
            !.items = cve_items \o (IF current_list.hasItems THEN @ ELSE <<>>),
            !.hasItems = TRUE]

\* update_allowlist, from the response to the list it sends back
UpdatedList(current_list, cve_items, replace) ==
    IF replace
    THEN [current_list EXCEPT !.items = cve_items, !.hasItems = TRUE]
    ELSE [current_list EXCEPT
            !.items = (IF current_list.hasItems THEN @ ELSE <<>>) \o cve_items,
            !.hasItems = TRUE]

\* `cve-allowlist update --cve ... [--replace]` starts: cves is the list
\* parse_commalist returns; get_cve_allowlist is requested
UpdateAllowlistStart(p) ==
    /\ inv[p].pc = "idle"
    /\ \E cves \in SeqsUpTo(CveIds, MaxCves), replace \in BOOLEAN :
          inv' = [inv EXCEPT ![p] =
                    Issue([@ EXCEPT !.cmd = "update", !.cves = cves, !.flag = replace],
                          "get_cve_allowlist", "get_wait")]
    /\ UNCHANGED <<server, cfgVars, loaderVars, cmdVars, clientVars, groupVars>>

\* `cve-allowlist clear [--full]` starts
ClearAllowlistStart(p) ==
    /\ inv[p].pc = "idle"
    /\ \E full \in BOOLEAN :
          inv' = [inv EXCEPT ![p] =
                    IF ~full
                    THEN Issue([@ EXCEPT !.cmd = "clear", !.flag = full],
                               "get_cve_allowlist", "get_wait")
                    ELSE Issue([@ EXCEPT !.cmd = "clear", !.flag = full,
                                         !.sent = EmptyAllowlist],
                               "update_cve_allowlist", "update_wait")]
    /\ UNCHANGED <<server, cfgVars, loaderVars, cmdVars, clientVars, groupVars>>

\* The mutant: the command goes on while get_cve_allowlist is still outstanding.
ServerGetAllowlist_StillOutstanding(p) ==
    /\ inv[p].pc = "get_wait"
    /\ inv' = [inv EXCEPT ![p] =
                 [@ EXCEPT !.response = server, !.current_list = server,
                           !.pc = "got"]]
    /\ UNCHANGED <<server, cfgVars, loaderVars, cmdVars, clientVars, groupVars>>

\* The server answers get_cve_allowlist; state.run returns the allowlist
ServerGetAllowlist(p) ==
    /\ inv[p].pc = "get_wait"
    /\ inv' = [inv EXCEPT ![p] =
                 [@ EXCEPT !.outstanding = @ \ {"get_cve_allowlist"},
                           !.response = server, !.current_list = server,
                           !.pc = "got"]]
    /\ UNCHANGED <<server, cfgVars, loaderVars, cmdVars, clientVars, groupVars>>

\* update_allowlist goes on: the list is changed and update_cve_allowlist requested
UpdateAllowlistSend(p) ==
    /\ inv[p].pc = "got" /\ inv[p].cmd = "update"
    /\ LET new == UpdatedList(inv[p].current_list, CveItems(inv[p].cves), inv[p].flag)
       IN  inv' = [inv EXCEPT ![p] =
                     Issue([@ EXCEPT !.current_list = new, !.sent = new],
                           "update_cve_allowlist", "update_wait")]
    /\ UNCHANGED <<server, cfgVars, loaderVars, cmdVars, clientVars, groupVars>>

\* The mutant: the metadata is cleared together with the items.
ClearAllowlistSend_DropsMetadata(p) ==
    /\ inv[p].pc = "got" /\ inv[p].cmd = "clear"
    /\ inv' = [inv EXCEPT ![p] =
                 Issue([@ EXCEPT !.current_list = EmptyAllowlist, !.sent = EmptyAllowlist],
                       "update_cve_allowlist", "update_wait")]
    /\ UNCHANGED <<server, cfgVars, loaderVars, cmdVars, clientVars, groupVars>>

\* clear_allowlist (not full) goes on: items = [] and update_cve_allowlist requested
ClearAllowlistSend(p) ==
    /\ inv[p].pc = "got" /\ inv[p].cmd = "clear"
    /\ LET new == [inv[p].current_list EXCEPT !.items = <<>>, !.hasItems = TRUE]
       IN  inv' = [inv EXCEPT ![p] =
                     Issue([@ EXCEPT !.current_list = new, !.sent = new],
                           "update_cve_allowlist", "update_wait")]
    /\ UNCHANGED <<server, cfgVars, loaderVars, cmdVars, clientVars, groupVars>>

\* The server stores the allowlist of update_cve_allowlist; the command ends
ServerUpdateAllowlist(p) ==
    /\ inv[p].pc = "update_wait"
    /\ server' = inv[p].sent
    /\ inv' = [inv EXCEPT ![p] =
                 [@ EXCEPT !.outstanding = @ \ {"update_cve_allowlist"},
                           !.pc = "done"]]
    /\ UNCHANGED <<cfgVars, loaderVars, cmdVars, clientVars, groupVars>>

AllowNext ==
    \E p \in Procs :
        \/ UpdateAllowlistStart(p)
        \/ ClearAllowlistStart(p)
        \/ ServerGetAllowlist(p)
        \/ UpdateAllowlistSend(p)
        \/ ClearAllowlistSend(p)
        \/ ServerUpdateAllowlist(p)

SpecAllowlist == AllowInit /\ [][AllowNext]_vars

\* The elements of a sequence
Range(q) == {q[i] : i \in DOMAIN q}

\* The cve ids of a list of items, in order
CveIdsOf(items) == [i \in 1..Len(items) |-> items[i].cve_id]

\* C2: with --replace the allowlist sent back holds exactly the given CVEs and
\* none of the entries the server returned; without --replace it holds the
\* returned entries in their order (none when items was None) followed by the
\* given CVEs, duplicates kept.
C2_UpdateReplaceOrAppend ==
    \A p \in Procs :
        (inv[p].cmd = "update" /\ inv[p].pc \in {"update_wait", "done"}) =>
            LET old == IF inv[p].response.hasItems THEN inv[p].response.items ELSE <<>>
                new == inv[p].sent.items
            IN  /\ inv[p].sent.hasItems
                /\ inv[p].flag => CveIdsOf(new) = inv[p].cves
                /\ ~inv[p].flag =>
                      /\ Len(new) = Len(old) + Len(inv[p].cves)
                      /\ SubSeq(new, 1, Len(old)) = old
                      /\ CveIdsOf(SubSeq(new, Len(old) + 1, Len(new))) = inv[p].cves

C2_Witness ==
    \E p \in Procs :
        /\ inv[p].cmd = "update" /\ inv[p].pc = "done" /\ ~inv[p].flag
        /\ Len(inv[p].response.items) = 2
        /\ inv[p].cves = <<"CVE-1", "CVE-1">>
        /\ CveIdsOf(inv[p].sent.items) = <<"CVE-2", "CVE-1", "CVE-1", "CVE-1">>

(***************************************************************************)
(* The client specification: get_client and setup_client, with the         *)
(* configuration changing between calls                                    *)
(***************************************************************************)
MaxOps == 5

\* HarborSettings.credentials: the keyword arguments of HarborAsyncClient
credentials(h) ==
    [url |-> h.url, username |-> h.username, secret |-> h.secret,
     credentials |-> h.basicauth, credentials_file |-> h.credentials_file]

\* The mutant: a client is constructed on every call.
get_client_NoMemo(C, cl, cfg) ==
    [CLIENTS |-> [C EXCEPT ![cfg.harbor.url] = Len(cl) + 1],
     clients |-> Append(cl, credentials(cfg.harbor)),
     client |-> Len(cl) + 1,
     constructed |-> TRUE]

\* get_client(config) on _CLIENTS = C with the clients cl constructed so far:
\* the new _CLIENTS, the clients constructed, and the client returned
get_client(C, cl, cfg) ==
    IF C[cfg.harbor.url] = 0
    THEN [CLIENTS |-> [C EXCEPT ![cfg.harbor.url] = Len(cl) + 1],
          clients |-> Append(cl, credentials(cfg.harbor)),
          client |-> Len(cl) + 1,
          constructed |-> TRUE]
    ELSE [CLIENTS |-> C, clients |-> cl, client |-> C[cfg.harbor.url],
          constructed |-> FALSE]

\* What the user may answer to str_prompt, which asks until the answer is not empty
PromptAnswers(prompt) ==
    CASE prompt = "Harbor API URL" -> {"https://h1", "https://h2"}
      [] prompt = "Username" -> {"admin2"}
      [] prompt = "Password" -> {"pw3"}

Event(ev, what, value) == [ev |-> ev, what |-> what, value |-> value]

\* Assignments to config.harbor between two uses of the client factory
ClientSetInputs ==
    { <<"url", "https://h2">>, <<"username", "">>, <<"secret", "pw2">>,
      <<"basicauth", "">> }

ClientInit ==
    /\ config \in
          { [HarborCLIConfig EXCEPT
                !.harbor = [url |-> u, username |-> n, secret |-> s, basicauth |-> b,
                            credentials_file |-> NoneVal],
                !.config_file = DEFAULT_CONFIG_FILE] :
              u \in {"", "https://h1"}, n \in {"", "admin"}, s \in {"", "pw1"},
              b \in {"", "tok1"} }
    /\ loaded = TRUE
    /\ disk = [p \in Paths |-> NoFile]
    /\ environ = [n \in EnvNames |-> Unset]
    /\ ClientIdle /\ LoaderIdle /\ CmdIdle /\ AllowIdle /\ GroupIdle

\* get_client(state.config), called by a command: commands run after
\* setup_client has set up state.client
GetClientCall ==
    /\ pc = "idle" /\ nops < MaxOps
    /\ state_client # 0
    /\ LET r == get_client(CLIENTS, clients, config)
       IN  /\ CLIENTS' = r.CLIENTS
           /\ clients' = r.clients
           /\ calls' = calls \cup {[url |-> config.harbor.url, client |-> r.client,
                                     creds |-> credentials(config.harbor)]}
    /\ nops' = nops + 1
    /\ UNCHANGED <<state_client, pc, has_url, has_auth, entry, trace>>
    /\ UNCHANGED <<cfgVars, loaderVars, cmdVars, allowVars, groupVars>>

\* setattr(state.config.harbor, field, value) between two uses of the factory
ClientConfigSet ==
    /\ pc = "idle" /\ nops < MaxOps
    /\ \E in \in ClientSetInputs :
          config' = [config EXCEPT !.harbor[in[1]] = in[2]]
    /\ nops' = nops + 1
    /\ UNCHANGED <<CLIENTS, clients, state_client, calls, pc, has_url, has_auth, entry, trace>>
    /\ UNCHANGED <<loaded, disk, environ, loaderVars, cmdVars, allowVars, groupVars>>

\* setup_client: has_url and has_auth are computed and the warnings logged
SetupStart ==
    /\ pc = "idle" /\ nops < MaxOps
    /\ has_url' = (config.harbor.url # "")
    /\ has_auth' = has_auth_method(config.harbor)
    /\ entry' = config.harbor
    /\ trace' =
          (IF ~has_url' THEN <<Event("warning", "url", "")>> ELSE <<>>)
          \o (IF ~has_auth' THEN <<Event("warning", "auth", "")>> ELSE <<>>)
    /\ pc' = "prompt_url"
    /\ nops' = nops + 1
    /\ UNCHANGED <<CLIENTS, clients, state_client, calls>>
    /\ UNCHANGED <<cfgVars, loaderVars, cmdVars, allowVars, groupVars>>

\* setup_client: if not has_url: config.harbor.url = str_prompt("Harbor API URL")
SetupPromptUrl ==
    /\ pc = "prompt_url"
    /\ IF ~has_url
       THEN \E answer \in PromptAnswers("Harbor API URL") :
              /\ config' = [config EXCEPT !.harbor.url = answer]
              /\ trace' = Append(trace, Event("prompt", "url", answer))
       ELSE UNCHANGED <<config, trace>>
    /\ pc' = IF has_auth THEN "get_client" ELSE "prompt_username"
    /\ UNCHANGED <<CLIENTS, clients, state_client, calls, has_url, has_auth, entry, nops>>
    /\ UNCHANGED <<loaded, disk, environ, loaderVars, cmdVars, allowVars, groupVars>>

\* The mutant: the username is not asked for.
SetupPromptUsername_Skipped ==
    /\ pc = "prompt_username"
    /\ pc' = "get_client"
    /\ UNCHANGED <<CLIENTS, clients, state_client, calls, has_url, has_auth, entry,
                   trace, nops>>
    /\ UNCHANGED <<cfgVars, loaderVars, cmdVars, allowVars, groupVars>>

\* setup_client: if not has_auth: config.harbor.username = str_prompt("Username")
SetupPromptUsername ==
    /\ pc = "prompt_username"
    /\ \E answer \in PromptAnswers("Username") :
          /\ config' = [config EXCEPT !.harbor.username = answer]
          /\ trace' = Append(trace, Event("prompt", "username", answer))
    /\ pc' = "prompt_password"
    /\ UNCHANGED <<CLIENTS, clients, state_client, calls, has_url, has_auth, entry, nops>>
    /\ UNCHANGED <<loaded, disk, environ, loaderVars, cmdVars, allowVars, groupVars>>

\* setup_client: config.harbor.secret = str_prompt("Password", password=True)
SetupPromptPassword ==
    /\ pc = "prompt_password"
    /\ \E answer \in PromptAnswers("Password") :
          /\ config' = [config EXCEPT !.harbor.secret = answer]
          /\ trace' = Append(trace, Event("prompt", "password", answer))
    /\ pc' = "get_client"
    /\ UNCHANGED <<CLIENTS, clients, state_client, calls, has_url, has_auth, entry, nops>>
    /\ UNCHANGED <<loaded, disk, environ, loaderVars, cmdVars, allowVars, groupVars>>

\* The mutant: state.client is assigned a client built before the prompts.
SetupAssign_EntryConfig ==
    /\ pc = "get_client"
    /\ LET r == get_client(CLIENTS, clients, [config EXCEPT !.harbor = entry])
       IN  /\ CLIENTS' = r.CLIENTS
           /\ clients' = r.clients
           /\ calls' = calls \cup {[url |-> entry.url, client |-> r.client,
                                     creds |-> credentials(entry)]}
           /\ state_client' = r.client
           /\ trace' = Append(trace, Event("get_client",
                                  IF r.constructed THEN "constructed" ELSE "memoized", ""))
    /\ pc' = "idle"
    /\ UNCHANGED <<has_url, has_auth, entry, nops>>
    /\ UNCHANGED <<cfgVars, loaderVars, cmdVars, allowVars, groupVars>>

\* setup_client: state.client = get_client(config)
SetupAssign ==
    /\ pc = "get_client"
    /\ LET r == get_client(CLIENTS, clients, config)
       IN  /\ CLIENTS' = r.CLIENTS
           /\ clients' = r.clients
           /\ calls' = calls \cup {[url |-> config.harbor.url, client |-> r.client,
                                     creds |-> credentials(config.harbor)]}
           /\ state_client' = r.client
           /\ trace' = Append(trace, Event("get_client",
                                  IF r.constructed THEN "constructed" ELSE "memoized", ""))
    /\ pc' = "idle"
    /\ UNCHANGED <<has_url, has_auth, entry, nops>>
    /\ UNCHANGED <<cfgVars, loaderVars, cmdVars, allowVars, groupVars>>

ClientNext ==
    \/ GetClientCall
    \/ ClientConfigSet
    \/ SetupStart
    \/ SetupPromptUrl
    \/ SetupPromptUsername
    \/ SetupPromptPassword
    \/ SetupAssign

SpecClient == ClientInit /\ [][ClientNext]_vars

(***************************************************************************)
(* Claims about the client factory                                         *)
(***************************************************************************)
\* C5 (as claimed): in every state after setup_client has assigned state.client,
\* exactly one of the three auth methods is set in the configuration.
C5_ExactlyOneMethod ==
    state_client # 0 => Cardinality(MethodsSet(config.harbor)) = 1

\* C5 (amended): at the moment setup_client assigns state.client, at least one
\* of the three auth methods is set in the configuration (several may be set).
C5_SomeMethodAtAssignment ==
    [][(pc = "get_client" /\ pc' = "idle") => MethodsSet(config'.harbor) # {}]_vars

C5_Witness ==
    /\ pc = "idle" /\ state_client # 0
    /\ trace # <<>> /\ trace[Len(trace)].ev = "get_client"
    /\ nops = 1
    /\ Cardinality(MethodsSet(config.harbor)) = 2

\* C9: all get_client calls made with the same config.harbor.url returned the
\* same client, calls with different urls returned different clients, and a
\* client is constructed at most once per url, also when the credentials of
\* the configuration changed between the calls.
C9_OneClientPerUrl ==
    /\ \A c1 \in calls, c2 \in calls : (c1.url = c2.url) <=> (c1.client = c2.client)
    /\ \A i \in 1..Len(clients), j \in 1..Len(clients) :
          clients[i].url = clients[j].url => i = j

C9_Witness ==
    \E c1 \in calls, c2 \in calls, c3 \in calls :
        /\ c1.url = c2.url /\ c1.creds # c2.creds /\ c1.client = c2.client
        /\ c3.url # c1.url /\ c3.client # c1.client

\* The trace of the running or last setup_client
Prompted(what) == \E i \in DOMAIN trace : trace[i].ev = "prompt" /\ trace[i].what = what

Answer(what) ==
    trace[CHOOSE i \in DOMAIN trace : trace[i].ev = "prompt" /\ trace[i].what = what].value

Warned(what) == \E i \in DOMAIN trace : trace[i].ev = "warning" /\ trace[i].what = what

SetupFinished == pc = "idle" /\ trace # <<>> /\ trace[Len(trace)].ev = "get_client"

\* What C10 says of the prompts, the warnings and their order.
C10_PromptsAndOrder ==
    /\ pc = "prompt_url" => ~Prompted("url")
    /\ pc \in {"prompt_url", "prompt_username"} =>
          ~Prompted("username") /\ ~Prompted("password")
    \* the URL is asked for iff config.harbor.url was empty
    /\ (pc \in {"prompt_username", "prompt_password", "get_client"} \/ SetupFinished) =>
          (Prompted("url") <=> entry.url = "")
    \* username and password are asked for iff no auth method was set
    /\ (pc = "get_client" \/ SetupFinished) =>
          /\ Prompted("username") <=> MethodsSet(entry) = {}
          /\ Prompted("password") <=> MethodsSet(entry) = {}
    \* every warning due is logged, and logged before the first prompt
    /\ (pc # "idle" \/ SetupFinished) =>
          /\ Warned("url") <=> entry.url = ""
          /\ Warned("auth") <=> MethodsSet(entry) = {}
          /\ \A i \in DOMAIN trace, j \in DOMAIN trace :
                (trace[i].ev = "warning" /\ trace[j].ev = "prompt") => i < j
    \* the client is created or looked up after the last prompt, as the last thing
    /\ \A i \in DOMAIN trace :
          trace[i].ev = "get_client" => i = Len(trace) /\ pc = "idle"
    /\ SetupFinished => state_client # 0

\* C10 (as claimed): setup_client prompts for the URL iff the url is empty and
\* for username and password iff no auth method is set, logs the warnings
\* before the first prompt, and creates or looks up the client after the
\* prompts, so that state.client is built from the prompted values.
C10_ClientFromPromptedValues ==
    /\ C10_PromptsAndOrder
    /\ SetupFinished =>
          /\ Prompted("url") => clients[state_client].url = Answer("url")
          /\ Prompted("username") =>
                /\ clients[state_client].username = Answer("username")
                /\ clients[state_client].secret = Answer("password")

\* C10 (amended): the same prompts and order; state.client is assigned only by
\* the last step, after the prompts; it is the client of the prompted URL, and
\* it is built from the prompted username and password when this call
\* constructs it (a client memoized for that URL is returned as it was built).
C10_SetupClientOrder ==
    /\ [](/\ C10_PromptsAndOrder
          /\ SetupFinished =>
                /\ Prompted("url") => clients[state_client].url = Answer("url")
                /\ (Prompted("username") /\ trace[Len(trace)].what = "constructed") =>
                      /\ clients[state_client].username = Answer("username")
                      /\ clients[state_client].secret = Answer("password"))
    /\ [][state_client' # state_client => (pc = "get_client" /\ pc' = "idle")]_vars

C10_Witness ==
    /\ SetupFinished
    /\ Len(trace) = 6
    /\ Prompted("url") /\ Prompted("username") /\ Prompted("password")
    /\ trace[Len(trace)].what = "constructed"
    /\ clients[state_client].username = "admin2"

\* C11 (as claimed): in every reachable state at most one API client has been
\* constructed: no sequence of configuration changes and client-factory calls
\* leaves a second client, of a different url, beside the first.
C11_AtMostOneClient ==
    /\ Len(clients) <= 1
    /\ Cardinality({u \in URLs : CLIENTS[u] # 0}) <= 1

\* C12: within one invocation the network calls are sequential: at most one
\* request is outstanding at any time; `update`, and `clear` without --full,
\* issue get_cve_allowlist and then, once it has completed, a single
\* update_cve_allowlist that carries the list derived from the response of
\* that get; `clear --full` issues the single update_cve_allowlist only.
C12_SequentialCalls ==
    \A p \in Procs :
        LET i == inv[p]
            fetches == i.cmd = "update" \/ (i.cmd = "clear" /\ ~i.flag)
        IN  /\ Cardinality(i.outstanding) <= 1
            /\ Len(i.issued) <= 2
            /\ (fetches /\ Len(i.issued) >= 1) => i.issued[1] = "get_cve_allowlist"
            /\ (fetches /\ Len(i.issued) = 2) =>
                  /\ i.issued[2] = "update_cve_allowlist"
                  /\ "get_cve_allowlist" \notin i.outstanding
                  /\ i.sent.meta = i.response.meta
                  /\ i.cmd = "update" =>
                        i.sent = UpdatedList(i.response, CveItems(i.cves), i.flag)
                  /\ i.cmd = "clear" => i.sent.items = <<>> /\ i.sent.hasItems
            /\ (i.cmd = "clear" /\ i.flag) =>
                  i.issued = <<"update_cve_allowlist">>
            /\ i.pc = "done" => i.outstanding = {}

C12_Witness ==
    \E p \in Procs :
        /\ inv[p].cmd = "update" /\ inv[p].pc = "update_wait"
        /\ inv[p].issued = <<"get_cve_allowlist", "update_cve_allowlist">>
        /\ inv[p].outstanding = {"update_cve_allowlist"}
        /\ inv[p].response.items # <<>>
        /\ inv[p].cves # <<>>

\* C15: `cve-allowlist clear` always sends an allowlist with zero CVE items:
\* without --full it fetches the current allowlist and sends it back with the
\* items emptied and every other field unchanged; with --full it sends a fresh
\* allowlist with empty items and no metadata, without fetching the current one.
C15_ClearSendsNoItems ==
    \A p \in Procs :
        (inv[p].cmd = "clear" /\ "update_cve_allowlist" \in Range(inv[p].issued)) =>
            /\ inv[p].sent.hasItems /\ Len(inv[p].sent.items) = 0
            /\ ~inv[p].flag =>
                  /\ inv[p].sent = [inv[p].response EXCEPT !.items = <<>>, !.hasItems = TRUE]
                  /\ "get_cve_allowlist" \in Range(inv[p].issued)
            /\ inv[p].flag =>
                  /\ inv[p].sent.meta = ""
                  /\ "get_cve_allowlist" \notin Range(inv[p].issued)

C15_Witness ==
    \E p \in Procs :
        /\ inv[p].cmd = "clear" /\ ~inv[p].flag /\ inv[p].pc = "done"
        /\ Len(inv[p].response.items) > 0 /\ inv[p].response.meta = "project-1"
        /\ server.items = <<>> /\ server.meta = "project-1"

\* C16 (as claimed): when two `cve-allowlist update` invocations without
\* --replace run against the same server, then for every interleaving of their
\* get and update calls the final allowlist of the server holds the CVEs added
\* by both invocations.
C16_NoLostAdditions ==
    (\A p \in Procs : /\ inv[p].cmd = "update" /\ ~inv[p].flag /\ inv[p].pc = "done"
                       /\ inv[p].cves # <<>>) =>
        \A p \in Procs : Range(inv[p].cves) \subseteq Range(CveIdsOf(server.items))

(***************************************************************************)
(* The user group specification: `usergroup create` run against a server   *)
(***************************************************************************)
MaxGroups == 2

\* UserGroupType
UserGroupTypes == {"LDAP", "HTTP", "OIDC"}

\* UserGroupType.as_int: the group_type of the Harbor API
as_int(group_type) ==
    CASE group_type = "LDAP" -> 1
      [] group_type = "HTTP" -> 2
      [] group_type = "OIDC" -> 3

\* UserGroup(group_name=..., group_type=..., ldap_group_dn=...)
UserGroup(group_name, group_type, ldap_group_dn) ==
    [group_name |-> group_name, group_type |-> group_type,
     ldap_group_dn |-> ldap_group_dn]

\* The arguments of `usergroup create`: a missing --ldap-group-dn is None
GroupNames == {"devs", "ops"}
GroupDNs == {NoneVal, "", "cn=devs,ou=groups"}

\* The mutant: the DN is not required for LDAP groups.
create_usergroup_NoDnCheck(group_type, group_name, ldap_group_dn) ==
    [exit_err |-> FALSE,
     requests |-> <<UserGroup(group_name, as_int(group_type), ldap_group_dn)>>]

\* create_usergroup: whether it exits with the error, and the create_usergroup
\* requests it makes
create_usergroup(group_type, group_name, ldap_group_dn) ==
    IF group_type = "LDAP" /\ ldap_group_dn = NoneVal
    THEN [exit_err |-> TRUE, requests |-> <<>>]
    ELSE [exit_err |-> FALSE,
          requests |-> <<UserGroup(group_name, as_int(group_type), ldap_group_dn)>>]

GroupInit ==
    /\ GroupIdle
    /\ config = HarborCLIConfig /\ loaded = FALSE
    /\ disk = [p \in Paths |-> NoFile]
    /\ environ = [n \in EnvNames |-> Unset]
    /\ LoaderIdle /\ CmdIdle /\ ClientIdle /\ AllowIdle

\* `usergroup create TYPE --name NAME [--ldap-group-dn DN]` runs up to its
\* exit with the error or up to its create_usergroup request
CreateUsergroupStart ==
    /\ usergroup.pc \in {"idle", "done", "error"}
    /\ Len(groups) < MaxGroups
    /\ \E group_type \in UserGroupTypes, group_name \in GroupNames,
          ldap_group_dn \in GroupDNs :
          LET r == create_usergroup(group_type, group_name, ldap_group_dn)
          IN  usergroup' =
                 [pc |-> IF r.exit_err THEN "error" ELSE "create_wait",
                  group_type |-> group_type, group_name |-> group_name,
                  ldap_group_dn |-> ldap_group_dn, issued |-> r.requests]
    /\ UNCHANGED <<groups, cfgVars, loaderVars, cmdVars, clientVars, allowVars>>

\* The server creates the group; state.run returns and the command ends
ServerCreateUsergroup ==
    /\ usergroup.pc = "create_wait"
    /\ groups' = Append(groups, usergroup.issued[1])
    /\ usergroup' = [usergroup EXCEPT !.pc = "done"]
    /\ UNCHANGED <<cfgVars, loaderVars, cmdVars, clientVars, allowVars>>

GroupNext == CreateUsergroupStart \/ ServerCreateUsergroup

SpecUsergroup == GroupInit /\ [][GroupNext]_vars

\* C17: `usergroup create` with group type LDAP and no --ldap-group-dn exits
\* with an error and issues no create_usergroup call; for every other
\* combination of group type and DN exactly one create_usergroup call is
\* issued, with the given name, type and DN.
C17_LdapNeedsDn ==
    usergroup.pc # "idle" =>
        IF usergroup.group_type = "LDAP" /\ usergroup.ldap_group_dn = NoneVal
        THEN usergroup.pc = "error" /\ Len(usergroup.issued) = 0
        ELSE /\ usergroup.pc \in {"create_wait", "done"}
             /\ Len(usergroup.issued) = 1
             /\ usergroup.issued[1].group_name = usergroup.group_name
             /\ usergroup.issued[1].ldap_group_dn = usergroup.ldap_group_dn
             /\ usergroup.issued[1].group_type =
                   (CASE usergroup.group_type = "LDAP" -> 1
                      [] usergroup.group_type = "HTTP" -> 2
                      [] usergroup.group_type = "OIDC" -> 3)
             /\ usergroup.pc = "done" => groups[Len(groups)] = usergroup.issued[1]

C17_Witness ==
    /\ usergroup.pc = "error"
    /\ usergroup.group_type = "LDAP" /\ usergroup.ldap_group_dn = NoneVal
    /\ Len(groups) = 1 /\ groups[1].group_type = 1
    /\ groups[1].ldap_group_dn = "cn=devs,ou=groups"

(***************************************************************************)
(* The config file specification: create_config and from_file on a disk    *)
(* that holds any of the files the program writes                          *)
(***************************************************************************)
\* The mutant: an existing file is overwritten whatever overwrite says.
create_config_AlwaysOverwrites(d, config_path, overwrite) ==
    LET path == IF config_path = NoneVal THEN DEFAULT_CONFIG_FILE ELSE config_path
    IN  [raised |-> "", path |-> path, disk |-> [d EXCEPT ![path] = File(sample_config)]]

\* create_config(config_path, overwrite) on the disk d: what it raises, the
\* path it resolved, and the disk it leaves
create_config(d, config_path, overwrite) ==
    LET path == IF config_path = NoneVal THEN DEFAULT_CONFIG_FILE ELSE config_path
    IN  \* config_path.touch(exist_ok=overwrite)
        IF d[path].exists /\ ~overwrite
        THEN [raised |-> "OverwriteError", path |-> path, disk |-> d]
        \* config_path.write_text(sample_config())
        ELSE [raised |-> "", path |-> path,
              disk |-> [d EXCEPT ![path] = File(sample_config)]]

\* HarborCLIConfig.from_file(config_file, create) on the disk d
from_file(d, config_file, create) ==
    LET path == IF config_file = NoneVal THEN DEFAULT_CONFIG_FILE ELSE config_file
        d2 == IF ~d[path].exists /\ create THEN create_config(d, path, FALSE).disk ELSE d
    IN  IF ~d2[path].exists
        THEN [raised |-> "FileNotFoundError", path |-> path, disk |-> d2,
              cfg |-> HarborCLIConfig]
        ELSE IF ~DocValid(d2[path].doc)
        THEN [raised |-> "ValidationError", path |-> path, disk |-> d2,
              cfg |-> HarborCLIConfig]
        ELSE [raised |-> "", path |-> path, disk |-> d2,
              cfg |-> FromDoc(d2[path].doc, path)]

\* What a config file may hold: the sample, or a configuration saved earlier
FileDocs == {sample_config, ConfiguredDoc}

FileInit ==
    /\ disk \in [Paths -> {NoFile} \cup {File(doc) : doc \in FileDocs}]
    /\ config = HarborCLIConfig /\ loaded = FALSE
    /\ environ = [n \in EnvNames |-> Unset]
    /\ LoaderIdle /\ CmdIdle /\ ClientIdle /\ AllowIdle /\ GroupIdle

\* create_config(config_path, overwrite)
CreateConfig ==
    /\ \E config_path \in {NoneVal} \cup Paths, overwrite \in BOOLEAN :
          LET r == create_config(disk, config_path, overwrite)
          IN  /\ disk' = r.disk
              /\ fileop' = [op |-> "create_config", path |-> r.path, flag |-> overwrite,
                            raised |-> r.raised, before |-> disk]
    /\ UNCHANGED <<config, loaded, environ, authResult, printed, reloaded,
                   cmdVars, clientVars, allowVars, groupVars>>

\* HarborCLIConfig.from_file(config_file, create)
FromFile ==
    /\ \E config_file \in {NoneVal} \cup Paths, create \in BOOLEAN :
          LET r == from_file(disk, config_file, create)
          IN  /\ disk' = r.disk
              /\ fileop' = [op |-> "from_file", path |-> r.path, flag |-> create,
                            raised |-> r.raised, before |-> disk]
              /\ reloaded' = [called |-> TRUE, ok |-> r.raised = "", error |-> r.raised,
                              cfg |-> r.cfg]
    /\ UNCHANGED <<config, loaded, environ, authResult, printed,
                   cmdVars, clientVars, allowVars, groupVars>>

FileNext == CreateConfig \/ FromFile

SpecFile == FileInit /\ [][FileNext]_vars

\* What C19 says of create_config, and of from_file on a missing file up to
\* the settings it returns.
C19_NoClobber ==
    /\ fileop.op # "" => \A p \in Paths \ {fileop.path} : disk[p] = fileop.before[p]
    /\ fileop.op = "create_config" =>
          IF fileop.before[fileop.path].exists /\ ~fileop.flag
          THEN /\ fileop.raised = "OverwriteError"
               /\ disk[fileop.path] = fileop.before[fileop.path]
          ELSE /\ fileop.raised = ""
               /\ disk[fileop.path] = File(sample_config)
    /\ (fileop.op = "from_file" /\ ~fileop.before[fileop.path].exists) =>
          IF fileop.flag
          THEN reloaded.ok /\ disk[fileop.path] = File(sample_config)
          ELSE /\ ~reloaded.ok /\ reloaded.error = "FileNotFoundError"
               /\ ~disk[fileop.path].exists
    /\ (fileop.op = "from_file" /\ fileop.before[fileop.path].exists) =>
          disk[fileop.path] = fileop.before[fileop.path]

\* from_file(create=True) has just created and loaded a missing file.
CreatedByFromFile ==
    fileop.op = "from_file" /\ fileop.flag /\ ~fileop.before[fileop.path].exists

\* C19 (as claimed): create_config raises OverwriteError and leaves the file as
\* it is when the file exists and overwrite is False; otherwise the file holds
\* exactly the sample configuration afterwards; from_file(create=True) on a
\* missing file returns the default settings, and from_file(create=False)
\* raises without creating the file.
C19_CreateReturnsDefaults ==
    /\ C19_NoClobber
    /\ CreatedByFromFile => Settings(reloaded.cfg) = Settings(HarborCLIConfig)

\* C19 (amended): the same, but the configuration from_file(create=True)
\* returns for a missing file has the default settings except for the unset
\* optional values, which are read back from the sample file's empty strings:
\* output.pager is "" (default None) and harbor.credentials_file is None
\* (default "").
C19_CreateReturnsSample ==
    /\ C19_NoClobber
    /\ CreatedByFromFile =>
          Settings(reloaded.cfg) =
              [Settings(HarborCLIConfig) EXCEPT !.harbor.credentials_file = NoneVal,
                                                !.output.pager = ""]

C19_Witness ==
    /\ CreatedByFromFile /\ reloaded.ok
    /\ fileop.path = OtherConfigFile
    /\ disk[OtherConfigFile] = File(sample_config)
    /\ disk[DEFAULT_CONFIG_FILE] = File(ConfiguredDoc)

====
